---- MODULE Spec2Model ----
(***************************************************************************)
(* Verification model of the kobaco-influencer pricing engine              *)
(* (cost_calculator.py), its Streamlit valuation flow                      *)
(* (youtube_influencer_app.py) and the Gemini brand-safety adapter         *)
(* (brand_safety_analyzer.py).                                             *)
(*                                                                         *)
(* The pricing code computes with Python floats (IEEE-754 binary64) and    *)
(* truncates with int().  The model therefore carries its own binary64     *)
(* arithmetic: a float is a record [m |-> mantissa, e |-> exponent] of     *)
(* value m * 2^e, the mantissa a little-endian sequence of 14-bit limbs    *)
(* (TLC integers are 32 bits wide), and every operation rounds to 53 bits, *)
(* nearest-even, as the hardware does.  Decimal literals of the source     *)
(* (1.15, 0.85, ...) are kept in thousandths and converted by Lit, which   *)
(* yields the binary64 value nearest to the decimal, as the Python         *)
(* compiler does.                                                          *)
(***************************************************************************)
EXTENDS Integers, Sequences, FiniteSets, TLC

(***************************************************************************)
(* Natural numbers of arbitrary size: little-endian limbs, base 2^14.      *)
(***************************************************************************)
LimbBase == 2^14

RECURSIVE Trim(_)
Trim(s) ==
    IF s = <<>> THEN <<>>
    ELSE IF s[Len(s)] = 0 THEN Trim(SubSeq(s, 1, Len(s) - 1))
    ELSE s

Limb(s, i) == IF i >= 1 /\ i <= Len(s) THEN s[i] ELSE 0

ToBig(n) ==
    Trim(<<n % LimbBase, (n \div LimbBase) % LimbBase, n \div (LimbBase * LimbBase)>>)

BigToNat(s) == Limb(s, 1) + LimbBase * Limb(s, 2) + LimbBase * LimbBase * Limb(s, 3)

RECURSIVE SmallBits(_)
SmallBits(n) == IF n = 0 THEN 0 ELSE 1 + SmallBits(n \div 2)

BitLen(s) == IF s = <<>> THEN 0 ELSE 14 * (Len(s) - 1) + SmallBits(s[Len(s)])

\* SubSeq turns the function into an explicit tuple of limbs
ShiftRight(s, n) ==
    LET ls == n \div 14
        bs == n % 14
        len == IF Len(s) > ls THEN Len(s) - ls ELSE 0
    IN  Trim(SubSeq([i \in 1..len |->
                       (Limb(s, i + ls) \div 2^bs)
                       + (Limb(s, i + ls + 1) % 2^bs) * 2^(14 - bs)], 1, len))

ShiftLeft(s, n) ==
    LET ls == n \div 14
        bs == n % 14
        len == Len(s) + ls + 1
    IN  Trim(SubSeq([i \in 1..len |->
                       IF i <= ls THEN 0
                       ELSE ((Limb(s, i - ls) * 2^bs) % LimbBase)
                            + (Limb(s, i - ls - 1) \div 2^(14 - bs))], 1, len))

TestBit(s, n) == (Limb(s, (n \div 14) + 1) \div 2^(n % 14)) % 2

LowNonZero(s, n) ==
    \/ \E i \in 1..Len(s) : i <= n \div 14 /\ s[i] # 0
    \/ Limb(s, (n \div 14) + 1) % 2^(n % 14) # 0

RECURSIVE AddSmall(_, _)
AddSmall(s, c) ==
    IF c = 0 THEN s
    ELSE IF s = <<>> THEN ToBig(c)
    ELSE <<(s[1] + c) % LimbBase>> \o AddSmall(Tail(s), (s[1] + c) \div LimbBase)

RECURSIVE ColSum(_, _, _, _)
ColSum(a, b, k, i) ==
    IF i > Len(a) THEN 0
    ELSE (IF k + 1 - i >= 1 /\ k + 1 - i <= Len(b) THEN a[i] * b[k + 1 - i] ELSE 0)
         + ColSum(a, b, k, i + 1)

RECURSIVE MulCarry(_, _, _, _)
MulCarry(a, b, k, carry) ==
    IF k > Len(a) + Len(b) THEN <<>>
    ELSE LET t == ColSum(a, b, k, 1) + carry
         IN  <<t % LimbBase>> \o MulCarry(a, b, k + 1, t \div LimbBase)

BigMul(a, b) == Trim(MulCarry(a, b, 1, 0))

RECURSIVE BigCmpAt(_, _, _)
BigCmpAt(a, b, i) ==
    IF i = 0 THEN 0
    ELSE IF a[i] # b[i] THEN (IF a[i] > b[i] THEN 1 ELSE -1)
    ELSE BigCmpAt(a, b, i - 1)

BigCmp(a, b) ==
    IF Len(a) # Len(b) THEN (IF Len(a) > Len(b) THEN 1 ELSE -1)
    ELSE BigCmpAt(a, b, Len(a))

RECURSIVE DivSmallAt(_, _, _, _)
DivSmallAt(s, d, i, rem) ==
    IF i = 0 THEN <<>>
    ELSE LET t == rem * LimbBase + s[i]
         IN  DivSmallAt(s, d, i - 1, t % d) \o <<t \div d>>

BigDivSmall(s, d) == Trim(DivSmallAt(s, d, Len(s), 0))

(***************************************************************************)
(* binary64 values and operations.                                         *)
(***************************************************************************)
FRoundS(P, e, sticky) ==
    LET L == BitLen(P)
        s == L - 53
    IN  IF L <= 53 THEN [m |-> P, e |-> e]
        ELSE LET q  == ShiftRight(P, s)
                 up == /\ TestBit(P, s - 1) = 1
                       /\ (sticky \/ LowNonZero(P, s - 1) \/ TestBit(q, 0) = 1)
             IN  [m |-> IF up THEN AddSmall(q, 1) ELSE q, e |-> e + s]

FromInt(n) == [m |-> ToBig(n), e |-> 0]

FMul(x, y) == FRoundS(BigMul(x.m, y.m), x.e + y.e, FALSE)

\* Long division of ints, one quotient bit per step: st = <<q, r, n>> is the
\* quotient so far, the remainder and the number of fraction bits produced.
\* The steps are grouped by eight to keep the evaluation stack shallow.
DivDone(st) == st[2] = 0 \/ BitLen(st[1]) >= 54

RECURSIVE DivBits(_, _, _)
DivBits(st, b, k) ==
    IF k = 0 \/ DivDone(st) THEN st
    ELSE LET bit == IF 2 * st[2] >= b THEN 1 ELSE 0
         IN  DivBits(<<AddSmall(ShiftLeft(st[1], 1), bit), 2 * st[2] - bit * b, st[3] + 1>>,
                     b, k - 1)

RECURSIVE DivStep(_, _)
DivStep(st, b) ==
    IF DivDone(st) THEN FRoundS(st[1], 0 - st[3], st[2] # 0)
    ELSE DivStep(DivBits(st, b, 8), b)

\* a / b for Python ints 0 <= a, 0 < b: the correctly rounded quotient
FDiv(a, b) == DivStep(<<ToBig(a \div b), a % b, 0>>, b)

\* The float written as the decimal k/1000 in the source (0 <= k <= 2000):
\* the binary64 value nearest to k/1000.  The conversions are tabulated once.
LitTable == SubSeq([i \in 1..2001 |-> FDiv(i - 1, 1000)], 1, 2001)
Lit(k) == LitTable[k + 1]

FCmp(x, y) ==
    LET e0 == IF x.e < y.e THEN x.e ELSE y.e
    IN  BigCmp(ShiftLeft(x.m, x.e - e0), ShiftLeft(y.m, y.e - e0))

\* the comparisons of two floats are exact
FGt(x, y) == FCmp(x, y) > 0
\* variants that slip >= into > and < into <=
FGeStrict(x, y) == FCmp(x, y) > 0
FLtInclusive(x, y) == FCmp(x, y) <= 0
FGe(x, y) == FCmp(x, y) >= 0
FLt(x, y) == FCmp(x, y) < 0
FEq(x, y) == FCmp(x, y) = 0

\* variant with a 21-bit result, as a fixed-width integer would give
FTruncWrapped(x) ==
    (IF x.e >= 0 THEN BigToNat(ShiftLeft(x.m, x.e))
     ELSE BigToNat(ShiftRight(x.m, 0 - x.e))) % 2^21

\* int(x) for x >= 0
FTrunc(x) ==
    IF x.e >= 0 THEN BigToNat(ShiftLeft(x.m, x.e))
    ELSE BigToNat(ShiftRight(x.m, 0 - x.e))

\* round(x, n) for x >= 0 as the integer p * (rounded value), p = 10^n: the
\* decimal nearest to the exact binary value, ties to even
FRoundDec(x, p) ==
    LET P == BigMul(x.m, ToBig(p))
        s == 0 - x.e
    IN  IF x.e >= 0 THEN BigToNat(ShiftLeft(P, x.e))
        ELSE LET q  == ShiftRight(P, s)
                 up == /\ TestBit(P, s - 1) = 1
                       /\ (LowNonZero(P, s - 1) \/ TestBit(q, 0) = 1)
             IN  BigToNat(q) + (IF up THEN 1 ELSE 0)

\* round(x, 3) in thousandths
FRound3(x) == FRoundDec(x, 1000)

\* round(x, 2) as a float: the binary64 value nearest to the rounded decimal
FRound2(x) == FDiv(FRoundDec(x, 100), 100)

RECURSIVE BigAddAt(_, _, _, _)
BigAddAt(a, b, i, carry) ==
    IF i > Len(a) /\ i > Len(b) THEN (IF carry = 0 THEN <<>> ELSE <<carry>>)
    ELSE LET t == Limb(a, i) + Limb(b, i) + carry
         IN  <<t % LimbBase>> \o BigAddAt(a, b, i + 1, t \div LimbBase)

BigAdd(a, b) == Trim(BigAddAt(a, b, 1, 0))

\* x + y for floats x, y >= 0
FAdd(x, y) ==
    LET e0 == IF x.e < y.e THEN x.e ELSE y.e
    IN  FRoundS(BigAdd(ShiftLeft(x.m, x.e - e0), ShiftLeft(y.m, y.e - e0)), e0, FALSE)

RECURSIVE BigSubAt(_, _, _, _)
BigSubAt(a, b, i, borrow) ==
    IF i > Len(a) THEN <<>>
    ELSE LET t == a[i] - Limb(b, i) - borrow
         IN  <<IF t < 0 THEN t + LimbBase ELSE t>>
             \o BigSubAt(a, b, i + 1, IF t < 0 THEN 1 ELSE 0)

\* a - b for a >= b
BigSub(a, b) == Trim(BigSubAt(a, b, 1, 0))

\* Binary long division of N by d: st = <<q, r, i>> is the quotient and the
\* remainder of the bits of N above bit i.  The steps are grouped by eight to
\* keep the evaluation stack shallow.
RECURSIVE LongBits(_, _, _, _)
LongBits(N, d, k, st) ==
    IF k = 0 \/ st[3] = 0 THEN st
    ELSE LET r2 == AddSmall(ShiftLeft(st[2], 1), TestBit(N, st[3] - 1))
             ge == BigCmp(r2, d) >= 0
         IN  LongBits(N, d, k - 1,
                      <<AddSmall(ShiftLeft(st[1], 1), IF ge THEN 1 ELSE 0),
                        IF ge THEN BigSub(r2, d) ELSE r2,
                        st[3] - 1>>)

RECURSIVE LongDiv(_, _, _)
LongDiv(N, d, st) ==
    IF st[3] = 0 THEN st ELSE LongDiv(N, d, LongBits(N, d, 8, st))

\* x / y for floats x >= 0, y > 0
FDivF(x, y) ==
    LET k  == 56 + BitLen(y.m) - BitLen(x.m)
        N  == ShiftLeft(x.m, k)
        QR == LongDiv(N, y.m, <<<<>>, <<>>, BitLen(N)>>)
    IN  IF x.m = <<>> THEN FromInt(0)
        ELSE FRoundS(QR[1], x.e - y.e - k, QR[2] # <<>>)

\* x - y for floats x >= y >= 0
FSub(x, y) ==
    LET e0 == IF x.e < y.e THEN x.e ELSE y.e
    IN  FRoundS(BigSub(ShiftLeft(x.m, x.e - e0), ShiftLeft(y.m, y.e - e0)), e0, FALSE)

\* variant that keeps its first argument
FMaxFirst(x, y) == x

\* max(x, y) of Python: the first argument unless the second is greater
FMax(x, y) == IF FGt(y, x) THEN y ELSE x

(***************************************************************************)
(* Optional arguments: None is the empty sequence, a value n is <<n>>.     *)
(***************************************************************************)
None == <<>>
Some(n) == <<n>>
\* Python truthiness of an optional int: None and 0 are false
Truthy(x) == x # None /\ x[1] # 0

(***************************************************************************)
(* cost_calculator.py                                                      *)
(* Multipliers are kept in thousandths (1.2 is 1200); labels are the       *)
(* English glosses of the Korean strings of the source: chogeongang        *)
(* "peak-health", maeu geongang "very healthy", geongang "healthy",        *)
(* jeongsang "normal", yakgan yakhwa "mild decline", yakhwa "decline",     *)
(* jugeogam "dying", jugeum "dead".                                        *)
(***************************************************************************)
calculate_channel_health(subscriber_count, avg_views) ==
    LET ratio == IF subscriber_count = 0 THEN FromInt(0)
                 ELSE FMul(FDiv(avg_views, subscriber_count), FromInt(100))
    IN  IF FGe(ratio, FromInt(30)) THEN
            [ratio |-> ratio, level |-> "peak-health", multiplier |-> 1200]
        ELSE IF FGe(ratio, FromInt(20)) THEN
            [ratio |-> ratio, level |-> "very healthy", multiplier |-> 1100]
        ELSE IF FGe(ratio, FromInt(15)) THEN
            [ratio |-> ratio, level |-> "healthy", multiplier |-> 1000]
        ELSE IF FGe(ratio, FromInt(10)) THEN
            [ratio |-> ratio, level |-> "normal", multiplier |-> 1000]
        ELSE IF FGe(ratio, FromInt(7)) THEN
            [ratio |-> ratio, level |-> "mild decline", multiplier |-> 800]
        ELSE IF FGe(ratio, FromInt(5)) THEN
            [ratio |-> ratio, level |-> "decline", multiplier |-> 700]
        ELSE IF FGe(ratio, FromInt(3)) THEN
            [ratio |-> ratio, level |-> "dying", multiplier |-> 500]
        ELSE
            [ratio |-> ratio, level |-> "dead", multiplier |-> 300]

\* growth_rate is kept as sign and magnitude: division and multiplication
\* round symmetrically, so the magnitude is computed on |recent - avg|
calculate_growth_multiplier(avg_views, recent_90day_avg_views) ==
    IF ~Truthy(recent_90day_avg_views) \/ avg_views = 0 THEN
        [multiplier |-> 1000, status |-> "insufficient data",
         negative |-> FALSE, growth_rate |-> FromInt(0)]
    ELSE
        LET recent == recent_90day_avg_views[1]
            neg    == recent < avg_views
            mag    == FMul(FDiv(IF neg THEN avg_views - recent ELSE recent - avg_views,
                                avg_views), FromInt(100))
            \* growth_rate >= t for an integer threshold t
            AtLeast(t) == IF t >= 0 THEN (~neg /\ FGe(mag, FromInt(t)))
                          ELSE (~neg \/ FGe(FromInt(0 - t), mag))
        IN  IF AtLeast(50) THEN
                [multiplier |-> 1150, status |-> "surging", negative |-> neg, growth_rate |-> mag]
            ELSE IF AtLeast(20) THEN
                [multiplier |-> 1100, status |-> "high growth", negative |-> neg, growth_rate |-> mag]
            ELSE IF AtLeast(10) THEN
                [multiplier |-> 1050, status |-> "growth", negative |-> neg, growth_rate |-> mag]
            ELSE IF AtLeast(-10) THEN
                [multiplier |-> 1000, status |-> "stable", negative |-> neg, growth_rate |-> mag]
            ELSE IF AtLeast(-20) THEN
                [multiplier |-> 950, status |-> "declining", negative |-> neg, growth_rate |-> mag]
            ELSE
                [multiplier |-> 900, status |-> "plunging", negative |-> neg, growth_rate |-> mag]

calculate_consistency_multiplier(video_count, channel_age_days) ==
    IF Truthy(channel_age_days) /\ channel_age_days[1] > 0 THEN
        LET weeks == FDiv(channel_age_days[1], 7)
            uploads_per_week == IF FGt(weeks, FromInt(0))
                                THEN FDivF(FromInt(video_count), weeks)
                                ELSE FromInt(0)
        IN  IF FGe(uploads_per_week, FromInt(2)) THEN
                [multiplier |-> 1050, status |-> "very regular"]
            ELSE IF FGe(uploads_per_week, FromInt(1)) THEN
                [multiplier |-> 1000, status |-> "regular"]
            ELSE IF FGe(uploads_per_week, Lit(500)) THEN
                [multiplier |-> 950, status |-> "irregular"]
            ELSE
                [multiplier |-> 900, status |-> "inactive"]
    ELSE
        IF video_count >= 200 THEN [multiplier |-> 1050, status |-> "active"]
        ELSE IF video_count >= 50 THEN [multiplier |-> 1000, status |-> "normal"]
        ELSE [multiplier |-> 950, status |-> "limited"]

calculate_loyalty_multiplier(avg_views, avg_comments, subscriber_count) ==
    IF avg_views = 0 THEN
        [multiplier |-> 1000, comment_view_ratio |-> 0, status |-> "insufficient data"]
    ELSE
        LET comment_view_ratio == FMul(FDiv(avg_comments, avg_views), FromInt(100))
            shown == FRound3(comment_view_ratio)
        IN  IF FGe(comment_view_ratio, Lit(500)) THEN
                [multiplier |-> 1100, comment_view_ratio |-> shown, status |-> "very active"]
            ELSE IF FGe(comment_view_ratio, Lit(300)) THEN
                [multiplier |-> 1050, comment_view_ratio |-> shown, status |-> "active"]
            ELSE IF FGe(comment_view_ratio, Lit(100)) THEN
                [multiplier |-> 1000, comment_view_ratio |-> shown, status |-> "normal"]
            ELSE
                [multiplier |-> 970, comment_view_ratio |-> shown, status |-> "low"]

\* premium_pct = (total_multiplier - 1.0) * 100 as <<negative, magnitude>>
premium_pct(total_multiplier) ==
    IF FLt(total_multiplier, FromInt(1))
    THEN <<TRUE, FMul(FSub(FromInt(1), total_multiplier), FromInt(100))>>
    ELSE <<FALSE, FMul(FSub(total_multiplier, FromInt(1)), FromInt(100))>>

\* the summary band of premium_pct: > 10, > 0, > -10, else
premium_summary(pct) ==
    IF ~pct[1] /\ FGt(pct[2], FromInt(10)) THEN "excellent"
    ELSE IF ~pct[1] /\ FGt(pct[2], FromInt(0)) THEN "good"
    ELSE IF ~pct[1] \/ FLt(pct[2], FromInt(10)) THEN "average"
    ELSE "caution"

\* the returned record: the band is taken from the unrounded product, the
\* reported total is round(total_multiplier, 3)
premium_result(health, growth, consistency, loyalty, total_multiplier) ==
    [total_multiplier |-> FRound3(total_multiplier),
     health |-> health, growth |-> growth,
     consistency |-> consistency, loyalty |-> loyalty,
     summary |-> premium_summary(premium_pct(total_multiplier))]

\* variant that leaves the loyalty factor out of the product
premium_product_without_loyalty(health, growth, consistency, loyalty) ==
    premium_result(health, growth, consistency, loyalty,
        FMul(FMul(Lit(health.multiplier), Lit(growth.multiplier)),
             Lit(consistency.multiplier)))

\* health * growth * consistency * loyalty, multiplied left to right
premium_product(health, growth, consistency, loyalty) ==
    premium_result(health, growth, consistency, loyalty,
        FMul(FMul(FMul(Lit(health.multiplier), Lit(growth.multiplier)),
                  Lit(consistency.multiplier)), Lit(loyalty.multiplier)))

calculate_total_premium(subscriber_count, avg_views, recent_90day_avg_views, video_count, avg_comments, channel_age_days) ==
    premium_product(
        calculate_channel_health(subscriber_count, avg_views),
        calculate_growth_multiplier(avg_views, recent_90day_avg_views),
        calculate_consistency_multiplier(video_count, channel_age_days),
        calculate_loyalty_multiplier(avg_views, avg_comments, subscriber_count))

\* variant with inclusive upper bounds, as a slip of < into <= would give
get_influencer_tier_inclusive(subscriber_count) ==
    IF subscriber_count <= 10000 THEN <<"Nano", "1K-10K">>
    ELSE IF subscriber_count <= 100000 THEN <<"Micro", "10K-100K">>
    ELSE IF subscriber_count <= 500000 THEN <<"Mid-tier", "100K-500K">>
    ELSE IF subscriber_count <= 1000000 THEN <<"Macro", "500K-1M">>
    ELSE <<"Mega", "1M+">>

get_influencer_tier(subscriber_count) ==
    IF subscriber_count < 10000 THEN <<"Nano", "1K-10K">>
    ELSE IF subscriber_count < 100000 THEN <<"Micro", "10K-100K">>
    ELSE IF subscriber_count < 500000 THEN <<"Mid-tier", "100K-500K">>
    ELSE IF subscriber_count < 1000000 THEN <<"Macro", "500K-1M">>
    ELSE <<"Mega", "1M+">>

\* engagement_rate is a float; the other arguments are ints
estimate_ad_cost_global(subscriber_count, avg_views, engagement_rate, avg_likes, avg_comments, recent_90day_avg_views, cpm_krw) ==
    LET base_cost_cpm == FMul(FDiv(avg_views, 1000), FromInt(cpm_krw))
        recent_cpm_cost ==
            IF Truthy(recent_90day_avg_views) /\ recent_90day_avg_views[1] > 0
            THEN FMul(FDiv(recent_90day_avg_views[1], 1000), FromInt(cpm_krw))
            ELSE FromInt(0)
        tier_base ==
            IF subscriber_count < 10000 THEN 350000
            ELSE IF subscriber_count < 100000 THEN 2000000
            ELSE IF subscriber_count < 500000 THEN 4000000
            ELSE IF subscriber_count < 1000000 THEN 10000000
            ELSE 15000000
        base_cost ==
            IF FGt(recent_cpm_cost, FromInt(0))
            THEN FMax(FMax(base_cost_cpm, recent_cpm_cost), FromInt(tier_base))
            ELSE FMax(base_cost_cpm, FromInt(tier_base))
        engagement ==
            IF FGe(engagement_rate, FromInt(10)) THEN <<1500, "top (10%+)">>
            ELSE IF FGe(engagement_rate, FromInt(7)) THEN <<1300, "very high (7-10%)">>
            ELSE IF FGe(engagement_rate, FromInt(5)) THEN <<1200, "high (5-7%)">>
            ELSE IF FGe(engagement_rate, FromInt(3)) THEN <<1100, "good (3-5%)">>
            ELSE IF FGe(engagement_rate, FromInt(2)) THEN <<1000, "average (2-3%)">>
            ELSE IF FGe(engagement_rate, FromInt(1)) THEN <<900, "low (1-2%)">>
            ELSE <<850, "very low (<1%)">>
        comment_like_ratio ==
            IF avg_likes > 0 THEN FDiv(avg_comments, avg_likes) ELSE FromInt(0)
        quality ==
            IF avg_likes > 0 THEN
                IF FGe(comment_like_ratio, Lit(150)) THEN <<1100, "conversational community">>
                ELSE IF FLt(comment_like_ratio, Lit(50)) THEN <<900, "event-driven / low quality">>
                ELSE <<1000, "normal range">>
            ELSE <<1000, "normal range">>
        final_engagement_multiplier == FMul(Lit(engagement[1]), Lit(quality[1]))
        final_cost == FTrunc(FMul(base_cost, final_engagement_multiplier))
    IN  [base_cost_cpm |-> FTrunc(base_cost_cpm),
         recent_cpm_cost |-> FTrunc(recent_cpm_cost),
         tier_base |-> tier_base,
         base_cost |-> FTrunc(base_cost),
         engagement_rate |-> engagement_rate,
         engagement_multiplier |-> engagement[1],
         engagement_level |-> engagement[2],
         comment_like_ratio |-> FRound3(comment_like_ratio),
         quality_multiplier |-> quality[1],
         quality_level |-> quality[2],
         final_engagement_multiplier |-> FRound3(final_engagement_multiplier),
         final_cost |-> final_cost,
         cpm_used |-> cpm_krw]

\* variant that forgets the regional discount
korea_adjustment_none(subscriber_count) == 1000

\* variant that still gives 0.85 at exactly 100,000 subscribers
korea_adjustment_inclusive(subscriber_count) ==
    IF subscriber_count <= 100000 THEN 850 ELSE 750

\* the regional discount: 0.85 below 100,000 subscribers, 0.75 from there on
korea_adjustment(subscriber_count) ==
    IF subscriber_count < 100000 THEN 850 ELSE 750

\* variant that leaves the channel premium out
global_final_cost_unscaled(final_cost, channel_premium_multiplier) == final_cost

\* the global final cost scaled by the channel premium composite, truncated
global_final_cost(final_cost, channel_premium_multiplier) ==
    FTrunc(FMul(FromInt(final_cost), Lit(channel_premium_multiplier)))

\* value * korea_adjustment, truncated
korea_adjusted(value, adjustment) == FTrunc(FMul(FromInt(value), Lit(adjustment)))

\* the returned record, with the range at final_cost * 0.85 and * 1.15
korea_result(global_cost, premium_data, adjustment, premium_cost, final_cost) ==
    [base_cost_cpm |-> korea_adjusted(global_cost.base_cost_cpm, adjustment),
     recent_cpm_cost |-> korea_adjusted(global_cost.recent_cpm_cost, adjustment),
     tier_base |-> korea_adjusted(global_cost.tier_base, adjustment),
     base_cost |-> korea_adjusted(global_cost.base_cost, adjustment),
     engagement_rate |-> global_cost.engagement_rate,
     engagement_multiplier |-> global_cost.engagement_multiplier,
     engagement_level |-> global_cost.engagement_level,
     comment_like_ratio |-> global_cost.comment_like_ratio,
     quality_multiplier |-> global_cost.quality_multiplier,
     quality_level |-> global_cost.quality_level,
     final_engagement_multiplier |-> global_cost.final_engagement_multiplier,
     channel_premium_multiplier |-> premium_data.total_multiplier,
     premium_details |-> premium_data,
     global_final_cost |-> premium_cost,
     korea_adjustment |-> adjustment,
     final_cost |-> final_cost,
     min_cost |-> FTrunc(FMul(FromInt(final_cost), Lit(850))),
     max_cost |-> FTrunc(FMul(FromInt(final_cost), Lit(1150))),
     cpm_used |-> korea_adjusted(global_cost.cpm_used, adjustment)]

\* premium first, regional discount second, each product truncated
korea_final(global_cost, premium_data, adjustment, premium_cost) ==
    korea_result(global_cost, premium_data, adjustment, premium_cost,
                 korea_adjusted(premium_cost, adjustment))

korea_estimate(global_cost, premium_data, adjustment) ==
    korea_final(global_cost, premium_data, adjustment,
        global_final_cost(global_cost.final_cost, premium_data.total_multiplier))

estimate_ad_cost_korea(subscriber_count, avg_views, engagement_rate, avg_likes, avg_comments, recent_90day_avg_views, video_count, channel_age_days, cpm_krw) ==
    korea_estimate(
        estimate_ad_cost_global(subscriber_count, avg_views, engagement_rate,
            avg_likes, avg_comments, recent_90day_avg_views, cpm_krw),
        calculate_total_premium(subscriber_count, avg_views,
            recent_90day_avg_views, video_count, avg_comments, channel_age_days),
        korea_adjustment(subscriber_count))

(***************************************************************************)
(* Divisions.  Each operator below gives the denominators the function     *)
(* divides by on the given arguments, following its guards; a call whose   *)
(* denominators include 0 raises ZeroDivisionError instead of returning.   *)
(***************************************************************************)
\* variant without the subscriber_count == 0 guard
health_denominators_unguarded(subscriber_count) == {subscriber_count}

\* if subscriber_count == 0: ratio = 0, else avg_views / subscriber_count
health_denominators(subscriber_count) ==
    IF subscriber_count = 0 THEN {} ELSE {subscriber_count}

\* (recent - avg_views) / avg_views, past the "no recent data" return
growth_denominators(avg_views, recent_90day_avg_views) ==
    IF ~Truthy(recent_90day_avg_views) \/ avg_views = 0 THEN {} ELSE {avg_views}

\* channel_age_days / 7, and video_count / weeks if weeks > 0
consistency_denominators(channel_age_days) ==
    IF Truthy(channel_age_days) /\ channel_age_days[1] > 0
    THEN {7, channel_age_days[1]} ELSE {}

\* avg_comments / avg_views, past the avg_views == 0 return
loyalty_denominators(avg_views) == IF avg_views = 0 THEN {} ELSE {avg_views}

premium_denominators(subscriber_count, avg_views, recent_90day_avg_views, channel_age_days) ==
    health_denominators(subscriber_count)
        \cup growth_denominators(avg_views, recent_90day_avg_views)
        \cup consistency_denominators(channel_age_days)
        \cup loyalty_denominators(avg_views)

\* avg_views / 1000, recent / 1000, and avg_comments / avg_likes if avg_likes > 0
global_denominators(avg_likes) == {1000} \cup (IF avg_likes > 0 THEN {avg_likes} ELSE {})

korea_denominators(subscriber_count, avg_views, avg_likes, recent_90day_avg_views, channel_age_days) ==
    global_denominators(avg_likes)
        \cup premium_denominators(subscriber_count, avg_views,
                                  recent_90day_avg_views, channel_age_days)

ZeroDivisionError == [raised |-> "ZeroDivisionError"]
\* what a call hands back: the exception of a division by zero, or the value
Returned(denominators, value) ==
    IF 0 \in denominators THEN Some(ZeroDivisionError) ELSE Some(value)

(***************************************************************************)
(* The pricing functions as a state machine: a call is drawn from the      *)
(* bounded argument sets below, and the one enabled action runs the        *)
(* function of that call to completion and stores what it returns, or the  *)
(* exception it raises.  prior is what the same call returned the time     *)
(* before, once it has been made again.                                    *)
(***************************************************************************)
VARIABLES call, ret, prior,
          pc, config, url, channel_info, playlist, recent_videos, metrics,
          cost_data, ai_button_clicked, ai_result, screen, requests, fault

libvars == <<call, ret, prior>>
appvars == <<pc, config, url, channel_info, playlist, recent_videos, metrics,
             cost_data, ai_button_clicked, ai_result, screen, requests, fault>>
vars == <<libvars, appvars>>

\* defaults of estimate_ad_cost_korea's optional parameters
DefaultVideoCount == 10
DefaultCpm == 30000

\* subscriber counts: every tier, and every breakpoint with its neighbours
TierDelta == 2
Breakpoints == {10000, 100000, 500000, 1000000}
TierSubs ==
    {0, 5000, 50000, 2000000}
        \cup {b + d : b \in Breakpoints, d \in (0 - TierDelta)..TierDelta}

\* health: views per 100 and per 1000 subscribers around every threshold
MaxHealthViews == 310
HealthSubs == {0, 100, 1000}

\* engagement rates in hundredths of a percent, on and just under each band edge
RateEdges == {0, 99, 100, 199, 200, 299, 300, 499, 500, 699, 700, 999, 1000, 1500}
\* <<avg_likes, avg_comments>>: no likes, and ratios on and beside 0.05 and 0.15
LikeComment ==
    {<<0, 0>>, <<0, 5>>, <<100, 4>>, <<100, 5>>, <<100, 14>>, <<100, 15>>,
     <<20, 3>>, <<400, 40>>}
\* average views: low, and past each tier floor's CPM crossover
BaseViews == {0, 1001, 8000, 35032, 66689, 133337, 400001, 600000, 1500004}
BaseSubs == {0, 9999, 10000, 99999, 100000, 499999, 500000, 999999, 1000000}
Recents == {None, Some(0), Some(200003)}
Cpms == {10000, DefaultCpm}

GlobalCall(s, v, e, lc, r, c) ==
    [fn |-> "estimate_ad_cost_global", subscriber_count |-> s, avg_views |-> v,
     engagement_rate |-> e, avg_likes |-> lc[1], avg_comments |-> lc[2],
     recent_90day_avg_views |-> r, cpm_krw |-> c]

\* consecutive view counts across the point where the CPM cost passes the
\* Nano floor at the default CPM (350,000 / 30 = 11,666.7 views)
MaxViewRun == 15
ViewRun == {11660 + i : i \in 0..MaxViewRun}

GlobalCalls ==
    {GlobalCall(5000, v, 550, <<400, 40>>, None, DefaultCpm) : v \in ViewRun}
    \cup
    {GlobalCall(s, v, e, <<400, 40>>, r, c) :
        s \in BaseSubs, v \in BaseViews, e \in {150, 550}, r \in Recents, c \in Cpms}
    \cup {GlobalCall(s, v, e, lc, None, DefaultCpm) :
        s \in {5000, 50000}, v \in {8000, 1500004}, e \in RateEdges \cup {550},
        lc \in LikeComment}

KoreaCall(s, v, e, lc, r, vc, age, c) ==
    [fn |-> "estimate_ad_cost_korea", subscriber_count |-> s, avg_views |-> v,
     engagement_rate |-> e, avg_likes |-> lc[1], avg_comments |-> lc[2],
     recent_90day_avg_views |-> r, video_count |-> vc,
     channel_age_days |-> age, cpm_krw |-> c]

\* <<video_count, channel_age_days>>
Uploads ==
    {<<DefaultVideoCount, None>>, <<50, None>>, <<200, None>>,
     <<DefaultVideoCount, Some(0)>>, <<52, Some(365)>>}

\* arguments that are 0 or absent, alone and together
ZeroCalls ==
    {KoreaCall(s, v, e, lc, r, u[1], u[2], DefaultCpm) :
        s \in {0, 5000}, v \in {0, 750}, e \in {0, 550},
        lc \in {<<0, 0>>, <<0, 5>>, <<10, 0>>, <<10, 1>>},
        r \in {None, Some(0), Some(12000)},
        u \in {<<0, None>>, <<0, Some(0)>>, <<0, Some(365)>>, <<52, Some(365)>>}}

KoreaCalls ==
    {KoreaCall(s, v, e, lc, r, u[1], u[2], DefaultCpm) :
        s \in {5000, 50000, 99999, 100000, 600000, 1000000},
        v \in {750, 8000, 66689, 400001}, e \in {150, 550},
        lc \in {<<400, 40>>, <<10, 1>>, <<100, 20>>},
        r \in {None, Some(0), Some(12000)}, u \in Uploads}
    \cup ZeroCalls
    \cup {KoreaCall(s, v, 550, <<400, 40>>, r, DefaultVideoCount, None, c) :
            s \in {0, 5000, 1000000}, v \in {0, 8000, 400001},
            r \in {None, Some(12000)}, c \in {0, 10000}}

TierCalls ==
    {[fn |-> "get_influencer_tier", subscriber_count |-> s] : s \in TierSubs}

HealthCalls ==
    {[fn |-> "calculate_channel_health", subscriber_count |-> s, avg_views |-> v] :
        s \in HealthSubs, v \in 0..MaxHealthViews}

Calls == TierCalls \cup HealthCalls \cup GlobalCalls \cup KoreaCalls

\* growth: recent views from 0 up, against a few averages, so that every
\* band edge of (recent - avg) / avg * 100 is met on and beside the edge
MaxGrowthRecent == 310
GrowthAvgs == {0, 40, 200}
GrowthCalls ==
    {[fn |-> "calculate_growth_multiplier", avg_views |-> v,
      recent_90day_avg_views |-> r] :
        v \in GrowthAvgs, r \in {None} \cup {Some(n) : n \in 0..MaxGrowthRecent}}

\* consistency: few and many videos against no age, a non-positive age and
\* ages in days up to a month
MaxUploads == 12
MaxAgeDays == 30
ConsistencyCalls ==
    {[fn |-> "calculate_consistency_multiplier", video_count |-> n,
      channel_age_days |-> a] :
        n \in (0..MaxUploads) \cup {49, 50, 199, 200},
        a \in {None, Some(0 - 7), Some(0)} \cup {Some(d) : d \in 1..MaxAgeDays}}

\* loyalty: comments per view on and beside 0.1%, 0.3% and 0.5%
MaxComments == 20
LoyaltyCalls ==
    {[fn |-> "calculate_loyalty_multiplier", avg_views |-> v, avg_comments |-> c,
      subscriber_count |-> s] :
        v \in {0, 7, 1000, 3000}, c \in 0..MaxComments, s \in {0, 5000}}

PremiumCall(s, v, r, u, c) ==
    [fn |-> "calculate_total_premium", subscriber_count |-> s, avg_views |-> v,
     recent_90day_avg_views |-> r, video_count |-> u[1], avg_comments |-> c,
     channel_age_days |-> u[2]]

\* the composite: every health band through the subscriber count, every
\* growth band through the recent views, every consistency and loyalty band
PremiumSubs == {0, 50000, 25000, 16000, 12000, 8000, 6000, 4000, 2000}
PremiumRecents ==
    {None, Some(0), Some(700), Some(850), Some(1000), Some(1100), Some(1200), Some(1500)}
PremiumUploads ==
    {<<DefaultVideoCount, None>>, <<50, None>>, <<200, None>>,
     <<1, Some(28)>>, <<2, Some(28)>>, <<4, Some(28)>>, <<8, Some(28)>>}
PremiumCalls ==
    {PremiumCall(s, 1000, r, u, c) :
        s \in PremiumSubs, r \in PremiumRecents, u \in PremiumUploads, c \in {0, 1, 3, 5}}
    \cup {PremiumCall(s, 0, r, <<DefaultVideoCount, None>>, c) :
        s \in {0, 4000}, r \in {None, Some(0), Some(1200)}, c \in {0, 3}}

FactorCalls == GrowthCalls \cup ConsistencyCalls \cup LoyaltyCalls \cup PremiumCalls

\* variant that reads what an earlier call left behind
RateDrifting(e) == FDiv(e + (IF prior = None THEN 0 ELSE 100), 100)

\* the engagement rate argument: the float nearest to e/100
Rate(e) == FDiv(e, 100)

(***************************************************************************)
(* Python values the narrative adapter can return: a value is its type,    *)
(* what the "in" operator finds in it (the keys of a dict, the items of a  *)
(* list, the words of a str) and its length (the number itself for an      *)
(* int); a value is truthy when its length is not 0.                       *)
(***************************************************************************)
PyNone == [type |-> "NoneType", has |-> {}, len |-> 0]
PyDict(keys) == [type |-> "dict", has |-> keys, len |-> Cardinality(keys)]
PyList(items) == [type |-> "list", has |-> items, len |-> Cardinality(items)]
PyStr(words) == [type |-> "str", has |-> words, len |-> Cardinality(words)]
PyInt(n) == [type |-> "int", has |-> {}, len |-> n]
PyTruthy(v) == v.len # 0

\* the top-level fields of a report the page indexes without a guard
RequiredKeys ==
    {"content_quality", "detailed_analysis", "ad_effect", "brand_safety",
     "recommendation", "risk_assessment"}
\* the fields of the JSON the prompt asks for
PromptKeys ==
    RequiredKeys \cup {"content_safety", "legal_ethics", "reputation", "community",
                       "brand_fit", "additional_checks", "overall_score"}

\* JSON documents a generator may answer with
Docs ==
    {PyDict(PromptKeys), PyDict({"overall_score"}), PyDict({"error"}), PyDict({}),
     PyList({"overall_score"}), PyList({"error"}), PyInt(5), PyNone, PyStr({"ok"})}

(***************************************************************************)
(* A response text is a sequence of tokens: a code fence (three            *)
(* backticks), the word json, white space, prose, or a JSON document.      *)
(***************************************************************************)
Fence == [t |-> "fence", doc |-> PyNone]
Json == [t |-> "json", doc |-> PyNone]
Space == [t |-> "space", doc |-> PyNone]
Prose == [t |-> "prose", doc |-> PyNone]
Doc(d) == [t |-> "doc", doc |-> d]

Texts ==
    {<<>>}
    \cup {<<Doc(d)>> : d \in Docs}
    \cup {<<Fence, Json, Space, Doc(d), Space, Fence>> : d \in Docs}
    \cup {<<Fence, Space, Doc(d), Space, Fence>> : d \in Docs}
    \cup {<<Fence, Json, Fence, Space, Doc(d), Space, Fence>> : d \in Docs}
    \cup {<<Space, Fence, Json, Space, Doc(d)>> : d \in Docs}
    \cup {<<Prose, Space, Doc(d)>> : d \in Docs}

\* what generate_content and response.text can do: raise, or give a text
GeminiOutcomes ==
    {[raises |-> TRUE, text |-> <<>>]} \cup {[raises |-> FALSE, text |-> x] : x \in Texts}

RECURSIVE lstrip(_)
lstrip(text) ==
    IF text # <<>> /\ text[1] = Space THEN lstrip(Tail(text)) ELSE text
RECURSIVE rstrip(_)
rstrip(text) ==
    IF text # <<>> /\ text[Len(text)] = Space
    THEN rstrip(SubSeq(text, 1, Len(text) - 1)) ELSE text
strip(text) == rstrip(lstrip(text))

\* if response_text.startswith('```json'): response_text = response_text[7:]
strip_json_fence(text) ==
    IF Len(text) >= 2 /\ text[1] = Fence /\ text[2] = Json
    THEN SubSeq(text, 3, Len(text)) ELSE text
\* if response_text.startswith('```'): response_text = response_text[3:]
strip_open_fence(text) ==
    IF Len(text) >= 1 /\ text[1] = Fence THEN Tail(text) ELSE text
\* if response_text.endswith('```'): response_text = response_text[:-3]
strip_close_fence(text) ==
    IF Len(text) >= 1 /\ text[Len(text)] = Fence
    THEN SubSeq(text, 1, Len(text) - 1) ELSE text

\* json.loads: <<"ok", value>> for exactly one document, else a decode error
json_loads(text) ==
    IF Len(text) = 1 /\ text[1].t = "doc" THEN <<"ok", text[1].doc>>
    ELSE <<"JSONDecodeError", PyNone>>

\* the try block after the prompt is built: any exception becomes {"error": ...}
parse_response(outcome) ==
    IF outcome.raises THEN PyDict({"error"})
    ELSE LET result == json_loads(strip(strip_close_fence(strip_open_fence(
                            strip_json_fence(strip(outcome.text))))))
         IN  IF result[1] = "ok" THEN result[2] ELSE PyDict({"error"})

\* brand_safety_analyzer.analyze_with_gemini: <<the value returned, whether
\* the generator was called>>
analyze_with_gemini(gemini_available, gemini_api_loaded, outcome) ==
    IF ~gemini_available \/ ~gemini_api_loaded THEN <<PyNone, FALSE>>
    ELSE <<parse_response(outcome), TRUE>>

\* for i, video in enumerate(recent_videos[:5], 1)
prompt_videos_uncapped(videos) == videos
prompt_videos(videos) == SubSeq(videos, 1, IF Len(videos) > 5 THEN 5 ELSE Len(videos))
\* the generate_content calls of one invocation, each with the videos its
\* prompt lists
model_requests(gemini_available, gemini_api_loaded, videos) ==
    IF ~gemini_available \/ ~gemini_api_loaded THEN <<>>
    ELSE <<prompt_videos(videos)>>

\* the page's handling of ai_result: what it shows, or the exception that
\* escapes it
handle_ai_result(v) ==
    IF ~PyTruthy(v) THEN "nothing"
    ELSE IF v.type \notin {"dict", "list", "str"} THEN "TypeError"
    ELSE IF "error" \in v.has THEN
        (IF v.type = "dict" THEN "ai error" ELSE "TypeError")
    ELSE IF v.type # "dict" THEN "TypeError"
    ELSE IF RequiredKeys \subseteq v.has THEN "ai report"
    ELSE "KeyError"

(***************************************************************************)
(* youtube_influencer_app.py: the aggregates of the video sample           *)
(***************************************************************************)
RECURSIVE SumOf(_, _)
SumOf(videos, field) ==
    IF videos = <<>> THEN 0 ELSE videos[1][field] + SumOf(Tail(videos), field)

calculate_average_views(videos) ==
    IF videos = <<>> THEN 0 ELSE SumOf(videos, "viewCount") \div Len(videos)

calculate_average_stats(videos) ==
    IF videos = <<>> THEN <<0, 0>>
    ELSE <<SumOf(videos, "likeCount") \div Len(videos),
           SumOf(videos, "commentCount") \div Len(videos)>>

calculate_engagement_rate(video_stats) ==
    IF video_stats.viewCount = 0 THEN FromInt(0)
    ELSE FRound2(FMul(FDiv(video_stats.likeCount + video_stats.commentCount,
                           video_stats.viewCount), FromInt(100)))

\* sum(engagement_rates), added left to right
RECURSIVE SumRates(_, _)
SumRates(videos, acc) ==
    \* acc = acc has TLC evaluate the sum so far before the next addition
    IF videos # <<>> /\ acc = acc
    THEN SumRates(Tail(videos), FAdd(acc, calculate_engagement_rate(videos[1])))
    ELSE acc

\* the aggregates the page computes from a non-empty sample
sample_metrics(videos) ==
    [avg_views |-> calculate_average_views(videos),
     avg_likes |-> calculate_average_stats(videos)[1],
     avg_comments |-> calculate_average_stats(videos)[2],
     avg_engagement_rate |-> FDivF(SumRates(videos, FromInt(0)), FromInt(Len(videos)))]

\* variant that passes a 90-day figure, a video count and a channel age
page_estimate_with_history(subscriber_count, m, cpm_value) ==
    estimate_ad_cost_korea(subscriber_count, m.avg_views, m.avg_engagement_rate,
        m.avg_likes, m.avg_comments, Some(2 * m.avg_views + 1), 200, Some(365), cpm_value)

\* the page's call of the regional estimator: no 90-day figure, no
\* video_count, no channel age
page_estimate(subscriber_count, m, cpm_value) ==
    estimate_ad_cost_korea(subscriber_count, m.avg_views, m.avg_engagement_rate,
        m.avg_likes, m.avg_comments, None, DefaultVideoCount, None, cpm_value)

\* variant that prices whatever the sample is
has_videos_unchecked(videos) == TRUE

\* if recent_videos:
has_videos(videos) == videos # <<>>

(***************************************************************************)
(* Bounds and pools of the valuation flow                                  *)
(***************************************************************************)
MaxVideos == 2
VideoPool ==
    {[viewCount |-> 8000, likeCount |-> 400, commentCount |-> 40],
     [viewCount |-> 0, likeCount |-> 0, commentCount |-> 0],
     [viewCount |-> 1201, likeCount |-> 100, commentCount |-> 21]}
ChannelPool ==
    {[subscriberCount |-> 5000, videoCount |-> 12],
     [subscriberCount |-> 50000, videoCount |-> 300],
     [subscriberCount |-> 150000, videoCount |-> 300]}
SliderValues == {DefaultCpm, 50000}

RECURSIVE Samples(_)
Samples(n) ==
    IF n = 0 THEN {<<>>}
    ELSE Samples(n - 1)
         \cup {Append(x, v) : x \in {y \in Samples(n - 1) : Len(y) = n - 1},
                              v \in VideoPool}

Idle ==
    /\ pc = "idle"
    /\ config = None
    /\ url = ""
    /\ channel_info = None
    /\ playlist = None
    /\ recent_videos = <<>>
    /\ metrics = None
    /\ cost_data = None
    /\ ai_button_clicked = FALSE
    /\ ai_result = PyNone
    /\ screen = {}
    /\ requests = <<>>
    /\ fault = "none"

Init ==
    /\ call \in Calls
    /\ ret = None
    /\ prior = None
    /\ Idle

CallTier ==
    /\ call.fn = "get_influencer_tier"
    /\ ret = None
    /\ ret' = Returned({}, get_influencer_tier(call.subscriber_count))
    /\ UNCHANGED <<call, prior, appvars>>

CallHealth ==
    /\ call.fn = "calculate_channel_health"
    /\ ret = None
    /\ ret' = Returned(health_denominators(call.subscriber_count),
                       calculate_channel_health(call.subscriber_count, call.avg_views))
    /\ UNCHANGED <<call, prior, appvars>>

CallGlobal ==
    /\ call.fn = "estimate_ad_cost_global"
    /\ ret = None
    /\ ret' = Returned(global_denominators(call.avg_likes),
                    estimate_ad_cost_global(call.subscriber_count, call.avg_views,
                        Rate(call.engagement_rate), call.avg_likes,
                        call.avg_comments, call.recent_90day_avg_views,
                        call.cpm_krw))
    /\ UNCHANGED <<call, prior, appvars>>

CallKorea ==
    /\ call.fn = "estimate_ad_cost_korea"
    /\ ret = None
    /\ ret' = Returned(korea_denominators(call.subscriber_count, call.avg_views,
                        call.avg_likes, call.recent_90day_avg_views,
                        call.channel_age_days),
                    estimate_ad_cost_korea(call.subscriber_count, call.avg_views,
                        Rate(call.engagement_rate), call.avg_likes,
                        call.avg_comments, call.recent_90day_avg_views,
                        call.video_count, call.channel_age_days, call.cpm_krw))
    /\ UNCHANGED <<call, prior, appvars>>

\* the regional estimator is called once more with the same arguments; what
\* it returned the first time is kept for comparison
CallAgain ==
    /\ call.fn = "estimate_ad_cost_korea"
    /\ ret # None
    /\ prior = None
    /\ prior' = ret
    /\ ret' = None
    /\ UNCHANGED <<call, appvars>>

Next == CallTier \/ CallHealth \/ CallGlobal \/ CallKorea \/ CallAgain

Spec == Init /\ [][Next]_vars

(***************************************************************************)
(* The four premium factors and their composite, called on their own.      *)
(***************************************************************************)
FactorInit ==
    /\ call \in FactorCalls
    /\ ret = None
    /\ prior = None
    /\ Idle

CallGrowth ==
    /\ call.fn = "calculate_growth_multiplier"
    /\ ret = None
    /\ ret' = Returned(growth_denominators(call.avg_views, call.recent_90day_avg_views),
                       calculate_growth_multiplier(call.avg_views,
                                                   call.recent_90day_avg_views))
    /\ UNCHANGED <<call, prior, appvars>>

CallConsistency ==
    /\ call.fn = "calculate_consistency_multiplier"
    /\ ret = None
    /\ ret' = Returned(consistency_denominators(call.channel_age_days),
                       calculate_consistency_multiplier(call.video_count,
                                                        call.channel_age_days))
    /\ UNCHANGED <<call, prior, appvars>>

CallLoyalty ==
    /\ call.fn = "calculate_loyalty_multiplier"
    /\ ret = None
    /\ ret' = Returned(loyalty_denominators(call.avg_views),
                       calculate_loyalty_multiplier(call.avg_views, call.avg_comments,
                                                    call.subscriber_count))
    /\ UNCHANGED <<call, prior, appvars>>

CallPremium ==
    /\ call.fn = "calculate_total_premium"
    /\ ret = None
    /\ ret' = Returned(premium_denominators(call.subscriber_count, call.avg_views,
                            call.recent_90day_avg_views, call.channel_age_days),
                       calculate_total_premium(call.subscriber_count, call.avg_views,
                            call.recent_90day_avg_views, call.video_count,
                            call.avg_comments, call.channel_age_days))
    /\ UNCHANGED <<call, prior, appvars>>

FactorNext == CallGrowth \/ CallConsistency \/ CallLoyalty \/ CallPremium

FactorSpec == FactorInit /\ [][FactorNext]_vars

(***************************************************************************)
(* The aggregates of a video sample and the estimate made from them, as    *)
(* the page computes them, on samples listed in every order.               *)
(***************************************************************************)
MaxSample == 3
\* three videos whose rates are 1.2, 2.03 and 5.77, and one without views
AggPool ==
    {[viewCount |-> 10000, likeCount |-> 110, commentCount |-> 10],
     [viewCount |-> 10000, likeCount |-> 190, commentCount |-> 13],
     [viewCount |-> 10000, likeCount |-> 530, commentCount |-> 47],
     [viewCount |-> 0, likeCount |-> 0, commentCount |-> 0]}
AggCalls ==
    {[fn |-> "sample_metrics", subscriber_count |-> s,
      videos |-> SubSeq(v, 1, Len(v))] :
        s \in {5000, 150000}, v \in UNION {[1..n -> AggPool] : n \in 1..MaxSample}}

AggInit ==
    /\ call \in AggCalls
    /\ ret = None
    /\ prior = None
    /\ Idle

\* lines 334-353 on the videos of the call, at the default CPM
Aggregate ==
    /\ call.fn = "sample_metrics"
    /\ ret = None
    /\ has_videos(call.videos)
    /\ \E m \in {sample_metrics(call.videos)} :
            ret' = Some([metrics |-> m,
                        cost_data |-> page_estimate(call.subscriber_count, m, DefaultCpm)])
    /\ UNCHANGED <<call, prior, appvars>>

AggNext == Aggregate

AggSpec == AggInit /\ [][AggNext]_vars

(***************************************************************************)
(* Calls of analyze_with_gemini with every availability, a list of recent  *)
(* videos and every behaviour of the generator.                            *)
(***************************************************************************)
MaxRecent == 7
AnalyzerCalls ==
    {[fn |-> "analyze_with_gemini", gemini_available |-> a, gemini_api_loaded |-> l,
      videos |-> SubSeq([i \in 1..n |-> i], 1, n), outcome |-> o] :
        a \in BOOLEAN, l \in BOOLEAN, n \in 0..MaxRecent, o \in GeminiOutcomes}

AnalyzerInit ==
    /\ call \in AnalyzerCalls
    /\ ret = None
    /\ prior = None
    /\ Idle

CallAnalyzer ==
    /\ call.fn = "analyze_with_gemini"
    /\ ret = None
    /\ ret' = Some([value |-> analyze_with_gemini(call.gemini_available,
                                 call.gemini_api_loaded, call.outcome)[1],
                    requests |-> model_requests(call.gemini_available,
                                 call.gemini_api_loaded, call.videos)])
    /\ UNCHANGED <<call, prior, appvars>>

AnalyzerSpec == AnalyzerInit /\ [][CallAnalyzer]_vars

(***************************************************************************)
(* One run of the page script.  config is what the run starts from: the    *)
(* API keys that loaded, whether the Gemini package imported, and the CPM  *)
(* slider value kept in the session.  requests lists the remote calls in   *)
(* the order they are issued; screen is what the page has shown; fault is  *)
(* the exception that ended the run, if one escaped.                       *)
(***************************************************************************)
AppInit ==
    /\ call = [fn |-> "page"]
    /\ ret = None
    /\ prior = None
    /\ pc = "start"
    /\ config \in {Some([youtube_api_loaded |-> y, gemini_available |-> g,
                         gemini_api_loaded |-> k, cpm_slider |-> c]) :
                      y \in BOOLEAN, g \in BOOLEAN, k \in BOOLEAN, c \in SliderValues}
    /\ url = ""
    /\ channel_info = None
    /\ playlist = None
    /\ recent_videos = <<>>
    /\ metrics = None
    /\ cost_data = None
    /\ ai_button_clicked = FALSE
    /\ ai_result = PyNone
    /\ screen = {}
    /\ requests = <<>>
    /\ fault = "none"

\* a remote call that raises ends the run: nothing on the page catches it
Crash(exception) ==
    /\ pc' = "crashed"
    /\ fault' = exception

\* lines 290-311 and 962-963: the key check, the URL box, extract_channel_id
EnterUrl ==
    /\ pc = "start"
    /\ UNCHANGED <<libvars, config, channel_info, playlist, recent_videos, metrics,
                   cost_data, ai_button_clicked, ai_result, requests, fault>>
    /\ IF ~config[1].youtube_api_loaded
       THEN /\ screen' = screen \cup {"setup incomplete"}
            /\ pc' = "done"
            /\ url' = url
       ELSE \E u \in {"", "invalid", "channel/", "@"} :
                /\ url' = u
                /\ screen' = IF u = "invalid" THEN screen \cup {"invalid url"} ELSE screen
                /\ pc' = IF u \in {"", "invalid"} THEN "done" ELSE "lookup"

\* lines 313-320: the channel lookup by id or by handle
LookupChannel ==
    /\ pc = "lookup"
    /\ requests' = Append(requests, IF url = "channel/" THEN "channels.id"
                                    ELSE "channels.forHandle")
    /\ UNCHANGED <<libvars, config, url, playlist, recent_videos, metrics,
                   cost_data, ai_button_clicked, ai_result>>
    /\ \/ /\ Crash("RequestException")
          /\ UNCHANGED <<channel_info, screen>>
       \/ /\ screen' = screen \cup {"channel not found"}
          /\ pc' = "done"
          /\ UNCHANGED <<channel_info, fault>>
       \/ \E ch \in ChannelPool :
            /\ channel_info' = Some(ch)
            /\ pc' = "uploads"
            /\ UNCHANGED <<screen, fault>>

\* get_recent_videos, lines 221-223: the channel is looked up again
FetchUploads ==
    /\ pc = "uploads"
    /\ requests' = Append(requests, "channels.id")
    /\ UNCHANGED <<libvars, config, url, channel_info, playlist, recent_videos,
                   metrics, cost_data, ai_button_clicked, ai_result, screen>>
    /\ \/ Crash("RequestException")
       \/ /\ pc' \in {"sample", "playlist"}
          /\ UNCHANGED fault

\* get_recent_videos, lines 225-241: the uploads playlist
FetchPlaylist ==
    /\ pc = "playlist"
    /\ requests' = Append(requests, "playlistItems")
    /\ UNCHANGED <<libvars, config, url, channel_info, recent_videos, metrics,
                   cost_data, ai_button_clicked, ai_result, screen>>
    /\ \/ /\ Crash("RequestException")
          /\ UNCHANGED playlist
       \/ /\ pc' = "sample"
          /\ UNCHANGED <<playlist, fault>>
       \/ \E n \in 0..MaxVideos :
            /\ playlist' = Some(n)
            /\ pc' = "videos"
            /\ UNCHANGED fault

\* get_recent_videos, lines 243-253: the statistics of the listed videos
FetchVideos ==
    /\ pc = "videos"
    /\ requests' = Append(requests, "videos")
    /\ UNCHANGED <<libvars, config, url, channel_info, playlist, metrics,
                   cost_data, ai_button_clicked, ai_result, screen>>
    /\ \/ /\ Crash("RequestException")
          /\ UNCHANGED recent_videos
       \/ \E videos \in Samples(playlist[1]) :
            /\ recent_videos' = videos
            /\ pc' = "sample"
            /\ UNCHANGED fault

\* line 959-960: no sample, no estimate
NoVideos ==
    /\ pc = "sample"
    /\ ~has_videos(recent_videos)
    /\ screen' = screen \cup {"no recent videos"}
    /\ pc' = "done"
    /\ UNCHANGED <<libvars, config, url, channel_info, playlist, recent_videos,
                   metrics, cost_data, ai_button_clicked, ai_result, requests, fault>>

\* lines 334-353: the aggregates and the first estimate
Estimate ==
    /\ pc = "sample"
    /\ has_videos(recent_videos)
    /\ UNCHANGED <<libvars, config, url, channel_info, playlist, recent_videos,
                   ai_button_clicked, ai_result, screen, requests>>
    /\ IF Len(recent_videos) = 0
       THEN /\ Crash("ZeroDivisionError")
            /\ UNCHANGED <<metrics, cost_data>>
       ELSE /\ \E m \in {sample_metrics(recent_videos)} :
                    /\ metrics' = Some(m)
                    /\ cost_data' = Some(page_estimate(channel_info[1].subscriberCount,
                                                       m, config[1].cpm_slider))
            /\ pc' = "overview"
            /\ UNCHANGED fault

\* lines 383-400: the label of the engagement-quality panel
quality_text(avg_likes, avg_comments) ==
    LET comment_like_ratio ==
            IF avg_likes > 0 THEN FMul(FDiv(avg_comments, avg_likes), FromInt(100))
            ELSE FromInt(0)
    IN  IF FGe(comment_like_ratio, FromInt(15)) THEN "conversational community"
        ELSE IF FLt(comment_like_ratio, FromInt(5)) THEN "event-driven / low quality"
        ELSE "normal range"

\* channel_health = cost_data.get('channel_health', {})
channel_health(estimate) ==
    IF "channel_health" \in DOMAIN estimate THEN estimate.channel_health ELSE <<>>

\* lines 355-511: the channel overview, the engagement-quality panel and,
\* if channel_health is not empty, the channel-health panel
ShowOverview ==
    /\ pc = "overview"
    /\ screen' = screen \cup {"overview",
                              quality_text(metrics[1].avg_likes, metrics[1].avg_comments)}
                        \cup (IF channel_health(cost_data[1]) # <<>>
                              THEN {"channel health"} ELSE {})
    /\ pc' = "pricing"
    /\ UNCHANGED <<libvars, config, url, channel_info, playlist, recent_videos,
                   metrics, cost_data, ai_button_clicked, ai_result, requests, fault>>

\* lines 513-568: the slider, the second estimate and the three cost cards
Reprice ==
    /\ pc = "pricing"
    /\ cost_data' = Some(page_estimate(channel_info[1].subscriberCount,
                                       metrics[1], config[1].cpm_slider))
    /\ screen' = screen \cup {"cost"}
    /\ pc' = "button"
    /\ UNCHANGED <<libvars, config, url, channel_info, playlist, recent_videos,
                   metrics, ai_button_clicked, ai_result, requests, fault>>

\* variant that offers the button whatever the configuration
ai_button_offered_always(cfg) == TRUE

\* if GEMINI_AVAILABLE and gemini_api_loaded: the AI analysis button
ai_button_offered(cfg) == cfg.gemini_available /\ cfg.gemini_api_loaded

\* lines 643-646: the button is there only when Gemini is usable
AiButton ==
    /\ pc = "button"
    /\ UNCHANGED <<libvars, config, url, channel_info, playlist, recent_videos,
                   metrics, cost_data, ai_result, screen, requests, fault>>
    /\ IF ai_button_offered(config[1])
       THEN /\ ai_button_clicked' \in BOOLEAN
            /\ pc' = IF ai_button_clicked' THEN "analyze" ELSE "done"
       ELSE /\ ai_button_clicked' = FALSE
            /\ pc' = "done"

\* lines 649-685: the call of analyze_with_gemini
Analyze ==
    /\ pc = "analyze"
    /\ \E outcome \in GeminiOutcomes :
        LET r == analyze_with_gemini(config[1].gemini_available,
                                     config[1].gemini_api_loaded, outcome)
        IN  /\ ai_result' = r[1]
            /\ requests' = IF r[2] THEN Append(requests, "generate_content")
                           ELSE requests
    /\ pc' = "report"
    /\ UNCHANGED <<libvars, config, url, channel_info, playlist, recent_videos,
                   metrics, cost_data, ai_button_clicked, screen, fault>>

\* lines 688-957: the error message, the report, or an exception
Report ==
    /\ pc = "report"
    /\ UNCHANGED <<libvars, config, url, channel_info, playlist, recent_videos,
                   metrics, cost_data, ai_button_clicked, ai_result, requests>>
    /\ LET shown == handle_ai_result(ai_result)
       IN  IF shown \in {"KeyError", "TypeError"}
           THEN /\ Crash(shown)
                /\ UNCHANGED screen
           ELSE /\ screen' = IF shown = "nothing" THEN screen ELSE screen \cup {shown}
                /\ pc' = "done"
                /\ UNCHANGED fault

AppNext ==
    \/ EnterUrl
    \/ LookupChannel
    \/ FetchUploads
    \/ FetchPlaylist
    \/ FetchVideos
    \/ NoVideos
    \/ Estimate
    \/ ShowOverview
    \/ Reprice
    \/ AiButton
    \/ Analyze
    \/ Report

AppSpec == AppInit /\ [][AppNext]_vars

(***************************************************************************)
(* Properties.  The arithmetic of the statements is exact integer          *)
(* arithmetic, independent of the binary64 operations of the model.        *)
(***************************************************************************)
TierDone == call.fn = "get_influencer_tier" /\ ret # None
HealthDone == call.fn = "calculate_channel_health" /\ ret # None
GlobalDone == call.fn = "estimate_ad_cost_global" /\ ret # None
KoreaDone == call.fn = "estimate_ad_cost_korea" /\ ret # None

\* the global estimate of the arguments of a call
GlobalOf(c) ==
    estimate_ad_cost_global(c.subscriber_count, c.avg_views, Rate(c.engagement_rate),
        c.avg_likes, c.avg_comments, c.recent_90day_avg_views, c.cpm_krw)

\* x * m / 1000 truncated, in binary64 as Python evaluates int(x * m)
Scaled(x, m) == FTrunc(FMul(FromInt(x), Lit(m)))

ScenarioKorea ==
    KoreaCall(50000, 8000, 550, <<400, 40>>, None, DefaultVideoCount, None, DefaultCpm)
ScenarioGlobal == GlobalCall(50000, 8000, 550, <<400, 40>>, None, DefaultCpm)

\* the parts of the scenario the tier classifier and the global estimator give
ScenarioGlobalPart ==
    /\ (TierDone /\ call.subscriber_count = 50000) => ret[1][1] = "Micro"
    /\ (GlobalDone /\ call = ScenarioGlobal) =>
        /\ ret[1].base_cost_cpm = 240000
        /\ ret[1].tier_base = 2000000
        /\ ret[1].base_cost = 2000000
        /\ ret[1].engagement_multiplier = 1200
        /\ ret[1].quality_multiplier = 1000
        /\ ret[1].final_cost = 2400000

\* the health and loyalty figures of the scenario
ScenarioPremiumPart(p) ==
    /\ FEq(p.health.ratio, FromInt(16))
    /\ p.health.level = "healthy"
    /\ p.health.multiplier = 1000
    /\ p.growth.multiplier = 1000
    /\ p.loyalty.multiplier = 1100

\* C2, as stated: 50,000 subscribers, 8,000 views, 400 likes, 40 comments,
\* rate 5.5, CPM 30,000, no 90-day data, defaults otherwise: tier Micro, health
\* 16 / healthy / 1.0, CPM cost 240,000, floor and base 2,000,000, rate 1.2,
\* quality 1.0, global final 2,400,000, consistency 1.0, loyalty 1.10,
\* composite 1.10, premium-adjusted 2,640,000, region 0.85, final 2,244,000,
\* range 1,907,400 to 2,580,600.
C2_ScenarioAsStated ==
    /\ ScenarioGlobalPart
    /\ (KoreaDone /\ call = ScenarioKorea) =>
        /\ ScenarioPremiumPart(ret[1].premium_details)
        /\ ret[1].premium_details.consistency.multiplier = 1000
        /\ ret[1].channel_premium_multiplier = 1100
        /\ ret[1].global_final_cost = 2640000
        /\ ret[1].korea_adjustment = 850
        /\ ret[1].final_cost = 2244000
        /\ ret[1].min_cost = 1907400
        /\ ret[1].max_cost = 2580600

\* C2, amended: with video_count at its default 10 and no channel age the
\* consistency multiplier is 0.95, so the composite is 1.045, the
\* premium-adjusted cost 2,508,000, the final cost 2,131,800 and the range
\* 1,812,030 to 2,451,570; the other figures are as stated.
C2_ScenarioAsComputed ==
    /\ ScenarioGlobalPart
    /\ (KoreaDone /\ call = ScenarioKorea) =>
        /\ ScenarioPremiumPart(ret[1].premium_details)
        /\ ret[1].premium_details.consistency.multiplier = 950
        /\ ret[1].channel_premium_multiplier = 1045
        /\ ret[1].global_final_cost = 2508000
        /\ ret[1].korea_adjustment = 850
        /\ ret[1].final_cost = 2131800
        /\ ret[1].min_cost = 1812030
        /\ ret[1].max_cost = 2451570

C2_Witness ==
    /\ KoreaDone
    /\ call = ScenarioKorea
    /\ ret[1].premium_details.consistency.status = "limited"
    /\ ret[1].final_cost = 2131800

\* the narrative step was asked for in this run
NarrativeAsked == pc \in {"report", "done", "crashed"} /\ ai_button_clicked

\* C3: whatever the generator does (an exception, a text that is not JSON, a
\* JSON value that is no object or lacks fields, an {error: ...} object),
\* analyze_with_gemini hands back None or an {error: ...} value unless the
\* report is complete, no exception escapes the page's handling of it, and
\* the cost estimate computed before stays on the page.
C3_NarrativeFailureAdvisory ==
    NarrativeAsked =>
        /\ \/ ai_result \in {PyNone, PyDict({"error"})}
           \/ (ai_result.type = "dict" /\ RequiredKeys \subseteq ai_result.has)
        /\ fault = "none"
        /\ cost_data # None
        /\ "cost" \in screen

NoData == channel_info = None \/ recent_videos = <<>>
\* the run got as far as asking for the channel and no remote call failed
LookedUp == requests # <<>> /\ fault # "RequestException"

\* C4: an estimate is computed and shown only for a channel that was found
\* and a video sample that is not empty; a run that ends without a channel or
\* without videos has shown the matching notice and holds no aggregates and
\* no estimate.
C4_NoEstimateWithoutData ==
    /\ (cost_data # None \/ metrics # None \/ "cost" \in screen) => ~NoData
    /\ (pc \in {"done", "crashed"} /\ LookedUp /\ NoData) =>
        /\ fault = "none"
        /\ cost_data = None
        /\ metrics = None
        /\ IF channel_info = None THEN "channel not found" \in screen
           ELSE "no recent videos" \in screen

\* a channel was found, its sample came back empty, the notice is shown
C4_Witness ==
    /\ pc = "done"
    /\ channel_info # None
    /\ requests = <<"channels.forHandle", "channels.id", "playlistItems", "videos">>
    /\ recent_videos = <<>>
    /\ "no recent videos" \in screen
    /\ cost_data = None

TierRank(name) ==
    CASE name = "Nano" -> 1 [] name = "Micro" -> 2 [] name = "Mid-tier" -> 3
      [] name = "Macro" -> 4 [] name = "Mega" -> 5 [] OTHER -> 0

\* C5: every subscriber count gets exactly one of the five tiers, by strict <
\* against 10,000 / 100,000 / 500,000 / 1,000,000, so that a count on a
\* breakpoint is in the upper tier, and a larger count never gets a lower tier.
C5_TierStrictAndMonotone ==
    TierDone =>
        LET n == call.subscriber_count
            tier == ret[1][1]
        IN  /\ TierRank(tier) =
                 1 + Cardinality({b \in Breakpoints : n >= b})
            /\ \A c \in TierCalls :
                 c.subscriber_count >= n =>
                    TierRank(get_influencer_tier(c.subscriber_count)[1]) >= TierRank(tier)

C5_Witness ==
    /\ TierDone
    /\ call.subscriber_count = 10000
    /\ ret[1] = <<"Micro", "10K-100K">>

\* the band of views / subscribers * 100 among the thresholds, in integers:
\* 1 for >= 30 down to 8 for < 3
HealthBand(subscriber_count, avg_views) ==
    IF subscriber_count = 0 THEN 8
    ELSE 1 + Cardinality({t \in {30, 20, 15, 10, 7, 5, 3} :
                             100 * avg_views < t * subscriber_count})
HealthMultipliers == <<1200, 1100, 1000, 1000, 800, 700, 500, 300>>
HealthLevels ==
    <<"peak-health", "very healthy", "healthy", "normal", "mild decline",
      "decline", "dying", "dead">>

\* C6: the health ratio (0 without subscribers) falls into exactly one of the
\* eight bands >= 30, 20, 15, 10, 7, 5, 3 and below, with multipliers 1.2,
\* 1.1, 1.0, 1.0, 0.8, 0.7, 0.5, 0.3; a ratio on a threshold is in the upper
\* band, the bands at 15 and 10 have different labels, and the multiplier is
\* within [0.3, 1.2].
C6_HealthBands ==
    HealthDone =>
        LET band == HealthBand(call.subscriber_count, call.avg_views)
            r == ret[1]
        IN  /\ r.multiplier = HealthMultipliers[band]
            /\ r.level = HealthLevels[band]
            /\ HealthLevels[3] # HealthLevels[4]
            /\ r.multiplier >= 300 /\ r.multiplier <= 1200
            /\ call.subscriber_count = 0 => r.ratio = FromInt(0)

\* a ratio exactly on the threshold 15: the upper band, labelled apart from 10
C6_Witness ==
    /\ HealthDone
    /\ call.subscriber_count = 100
    /\ call.avg_views = 15
    /\ ret[1].level = "healthy"
    /\ ret[1].multiplier = 1000

TierFloor(subscriber_count) ==
    CASE subscriber_count < 10000 -> 350000
      [] subscriber_count >= 10000 /\ subscriber_count < 100000 -> 2000000
      [] subscriber_count >= 100000 /\ subscriber_count < 500000 -> 4000000
      [] subscriber_count >= 500000 /\ subscriber_count < 1000000 -> 10000000
      [] OTHER -> 15000000

\* views / 1000 * cpm as the exact integer part
CpmCost(views, cpm) == views * (cpm \div 1000) + (views * (cpm % 1000)) \div 1000

Max2(a, b) == IF a >= b THEN a ELSE b

\* max(CPM cost, tier floor), with the 90-day CPM cost when it is there and > 0
ExactBaseCost(c) ==
    LET floored == Max2(CpmCost(c.avg_views, c.cpm_krw), TierFloor(c.subscriber_count))
    IN  IF c.recent_90day_avg_views # None /\ c.recent_90day_avg_views[1] > 0
        THEN Max2(floored, CpmCost(c.recent_90day_avg_views[1], c.cpm_krw))
        ELSE floored

\* C7: the base cost is the largest of avg_views / 1000 * cpm, the tier floor
\* 350,000 / 2,000,000 / 4,000,000 / 10,000,000 / 15,000,000 of the tier's
\* bracket and, when 90-day views are given and > 0, their CPM cost; so it is
\* never below the floor.
C7_BaseCostIsMax ==
    GlobalDone =>
        /\ ret[1].tier_base = TierFloor(call.subscriber_count)
        /\ ret[1].base_cost >= ret[1].tier_base
        /\ ret[1].base_cost = ExactBaseCost(call)

\* rate multiplier in thousandths for a rate in hundredths of a percent
RateMultiplier(e) ==
    CASE e >= 1000 -> 1500
      [] e >= 700 /\ e < 1000 -> 1300
      [] e >= 500 /\ e < 700 -> 1200
      [] e >= 300 /\ e < 500 -> 1100
      [] e >= 200 /\ e < 300 -> 1000
      [] e >= 100 /\ e < 200 -> 900
      [] OTHER -> 850

\* floor(base * rate * quality), the multipliers in thousandths
FloorOfProduct(base, rate, quality) ==
    BigToNat(BigDivSmall(BigDivSmall(BigMul(ToBig(base), ToBig(rate * quality)),
                                     1000), 1000))

\* C8: the global final cost is floor(base cost * rate multiplier * quality
\* multiplier), the rate multiplier 1.5, 1.3, 1.2, 1.1, 1.0, 0.9 from the
\* engagement rate >= 10, 7, 5, 3, 2, 1 and 0.85 below 1.
C8_FinalCostIsFloor ==
    GlobalDone =>
        /\ ret[1].engagement_multiplier = RateMultiplier(call.engagement_rate)
        /\ ret[1].final_cost =
              FloorOfProduct(ExactBaseCost(call), ret[1].engagement_multiplier,
                             ret[1].quality_multiplier)

\* C9: comments / likes >= 0.15 gives 1.1, < 0.05 gives 0.9, anything between
\* (0.05 included) 1.0; without likes the ratio is reported as 0 and the
\* multiplier is 1.0, labelled normal range.
C9_QualityMultiplier ==
    GlobalDone =>
        LET likes == call.avg_likes
            comments == call.avg_comments
            r == ret[1]
        IN  IF likes = 0
            THEN /\ r.comment_like_ratio = 0
                 /\ r.quality_multiplier = 1000
                 /\ r.quality_level = "normal range"
            ELSE /\ 100 * comments >= 15 * likes <=>
                        (r.quality_multiplier = 1100
                            /\ r.quality_level = "conversational community")
                 /\ 100 * comments < 5 * likes <=>
                        (r.quality_multiplier = 900
                            /\ r.quality_level = "event-driven / low quality")
                 /\ (100 * comments >= 5 * likes /\ 100 * comments < 15 * likes) <=>
                        (r.quality_multiplier = 1000 /\ r.quality_level = "normal range")

\* comments without likes: not the low-quality branch
C9_Witness ==
    /\ GlobalDone
    /\ call.avg_likes = 0
    /\ call.avg_comments = 5
    /\ ret[1].quality_multiplier = 1000
    /\ ret[1].quality_level = "normal range"

\* C10: min_cost is floor(0.85 * final_cost) and max_cost is
\* floor(1.15 * final_cost) for every final cost the estimator produces.
C10_RangeIsFloor ==
    KoreaDone =>
        /\ ret[1].min_cost = (ret[1].final_cost * 17) \div 20
        /\ ret[1].max_cost = (ret[1].final_cost * 23) \div 20

\* C11: the regional adjustment is 0.85 when subscriber_count < 100,000 and
\* 0.75 otherwise (0.75 at exactly 100,000), which is 0.85 exactly for the
\* Nano and Micro tiers, and the final cost is the premium-adjusted cost
\* times that one factor, truncated.
C11_RegionalAdjustment ==
    KoreaDone =>
        LET r == ret[1]
            s == call.subscriber_count
        IN  /\ r.korea_adjustment = (IF s < 100000 THEN 850 ELSE 750)
            /\ (r.korea_adjustment = 850) <=>
                    (get_influencer_tier(s)[1] \in {"Nano", "Micro"})
            /\ r.final_cost = Scaled(r.global_final_cost, r.korea_adjustment)

\* 99,999 subscribers were priced at 0.85 or exactly 100,000 at 0.75, and
\* the factor changed the cost
C11_Witness ==
    /\ KoreaDone
    /\ \/ call.subscriber_count = 100000 /\ ret[1].korea_adjustment = 750
       \/ call.subscriber_count = 99999 /\ ret[1].korea_adjustment = 850
    /\ ret[1].final_cost < ret[1].global_final_cost

\* the view counts the global estimator is called with
AllViews == BaseViews \cup ViewRun \cup {8000, 1500004}
\* the largest of them below v
PrevViews(v) ==
    CHOOSE w \in AllViews : w < v /\ \A u \in AllViews : u < v => u <= w

\* C12: with every other argument fixed, the global final cost does not
\* decrease when avg_views grows: checked between each view count and the
\* next smaller one, which gives every pair by transitivity.
C12_FinalCostMonotoneInViews ==
    (GlobalDone /\ \E w \in AllViews : w < call.avg_views) =>
        GlobalOf([call EXCEPT !.avg_views = PrevViews(call.avg_views)]).final_cost
            <= ret[1].final_cost

\* one more view took the CPM cost past the floor and raised the final cost
C12_Witness ==
    /\ GlobalDone
    /\ call.avg_views \in ViewRun
    /\ \E w \in ViewRun : w < call.avg_views
    /\ GlobalOf([call EXCEPT !.avg_views = PrevViews(call.avg_views)]).final_cost
            < ret[1].final_cost
    /\ ret[1].base_cost > ret[1].tier_base

GrowthDone == call.fn = "calculate_growth_multiplier" /\ ret # None
ConsistencyDone == call.fn = "calculate_consistency_multiplier" /\ ret # None
LoyaltyDone == call.fn = "calculate_loyalty_multiplier" /\ ret # None
PremiumDone == call.fn = "calculate_total_premium" /\ ret # None

\* the growth band of (recent - avg) / avg * 100, in integers
GrowthBand(avg, recent) ==
    LET d == (recent - avg) * 100
    IN  IF d >= 50 * avg THEN 1150
        ELSE IF d >= 20 * avg THEN 1100
        ELSE IF d >= 10 * avg THEN 1050
        ELSE IF d >= (0 - 10) * avg THEN 1000
        ELSE IF d >= (0 - 20) * avg THEN 950
        ELSE 900

\* C13: the growth multiplier is the neutral 1.0 with status "insufficient
\* data" only when the recent figure is absent or avg_views is 0; for
\* avg_views > 0 and every present recent figure, 0 included, it is the band
\* of (recent - avg_views) / avg_views * 100: >= 50 gives 1.15, >= 20 1.10,
\* >= 10 1.05, >= -10 1.00, >= -20 0.95, and below that 0.90.
C13_GrowthBands ==
    GrowthDone =>
        LET r == ret[1]
            avg == call.avg_views
            recent == call.recent_90day_avg_views
        IN  IF recent = None \/ avg = 0
            THEN r.multiplier = 1000 /\ r.status = "insufficient data"
            ELSE /\ r.multiplier = GrowthBand(avg, recent[1])
                 /\ r.status # "insufficient data"

\* C14: with a known, positive channel age the consistency multiplier is the
\* band of uploads per week = video_count / (channel_age_days / 7): >= 2
\* gives 1.05, >= 1 1.00, >= 0.5 0.95, below that 0.90; with no age, or an
\* age that is not positive, it is 1.05 from 200 videos, 1.00 from 50 and
\* 0.95 below, never 0.90.
C14_ConsistencyBands ==
    ConsistencyDone =>
        LET n == call.video_count
            a == call.channel_age_days
            m == ret[1].multiplier
        IN  IF a # None /\ a[1] > 0
            THEN m = (IF 7 * n >= 2 * a[1] THEN 1050
                      ELSE IF 7 * n >= a[1] THEN 1000
                      ELSE IF 14 * n >= a[1] THEN 950
                      ELSE 900)
            ELSE /\ m = (IF n >= 200 THEN 1050 ELSE IF n >= 50 THEN 1000 ELSE 950)
                 /\ m # 900

\* exactly two uploads a week took the top band
C14_Witness ==
    /\ ConsistencyDone
    /\ call.channel_age_days # None
    /\ call.channel_age_days[1] > 0
    /\ 7 * call.video_count = 2 * call.channel_age_days[1]
    /\ ret[1].multiplier = 1050

\* C15: the loyalty multiplier is 1.0 when avg_views is 0; otherwise it is
\* the band of avg_comments / avg_views * 100: >= 0.5 gives 1.10, >= 0.3
\* 1.05, >= 0.1 1.00, below that 0.97, a ratio on a threshold taking the
\* higher multiplier; the subscriber count does not change the result.
C15_LoyaltyBands ==
    LoyaltyDone =>
        LET v == call.avg_views
            c == call.avg_comments
        IN  /\ ret[1].multiplier =
                    (IF v = 0 THEN 1000
                     ELSE IF 1000 * c >= 5 * v THEN 1100
                     ELSE IF 1000 * c >= 3 * v THEN 1050
                     ELSE IF 1000 * c >= v THEN 1000
                     ELSE 970)
            /\ \A s \in {0, 5000, 1000000} :
                    calculate_loyalty_multiplier(v, c, s) = ret[1]

\* a ratio of exactly 0.3% took 1.05
C15_Witness ==
    /\ LoyaltyDone
    /\ call.avg_views > 0
    /\ 1000 * call.avg_comments = 3 * call.avg_views
    /\ ret[1].multiplier = 1050

\* C16: the composite returned is the product of the four multipliers
\* returned with it, rounded to 3 decimals (a nearest multiple of 0.001; a
\* product exactly halfway between two is allowed either), and health is in
\* [0.3, 1.2], growth in [0.90, 1.15], consistency in [0.90, 1.05] and
\* loyalty in [0.97, 1.10].  The product is taken in hundredths: 10^8 = 1.
C16_CompositeIsProduct ==
    PremiumDone =>
        LET r == ret[1]
            h == r.health.multiplier
            g == r.growth.multiplier
            c == r.consistency.multiplier
            l == r.loyalty.multiplier
            product == (h \div 10) * (g \div 10) * (c \div 10) * (l \div 10)
            diff == r.total_multiplier * 10^5 - product
        IN  /\ {h, g, c, l} \subseteq {10 * k : k \in 0..200}
            /\ diff <= 5 * 10^4 /\ 0 - diff <= 5 * 10^4
            /\ h \in 300..1200
            /\ g \in 900..1150
            /\ c \in 900..1050
            /\ l \in 970..1100
            /\ r.health = calculate_channel_health(call.subscriber_count, call.avg_views)

\* all four factors away from 1 and the product rounded off to 3 decimals
C16_Witness ==
    /\ PremiumDone
    /\ ret[1].health.multiplier # 1000
    /\ ret[1].growth.multiplier # 1000
    /\ ret[1].consistency.multiplier # 1000
    /\ ret[1].loyalty.multiplier # 1000
    /\ ret[1].total_multiplier * 10^5 #
            (ret[1].health.multiplier \div 10) * (ret[1].growth.multiplier \div 10)
                * (ret[1].consistency.multiplier \div 10)
                * (ret[1].loyalty.multiplier \div 10)

\* C17: the summary is the band of p = (total - 1) * 100 of the total
\* returned in the same record: p > 10 is "excellent", p > 0 "good",
\* p > -10 "average", otherwise "caution"; a total of exactly 1.0 is
\* "average" and of exactly 1.1 "good".
C17_SummaryBand ==
    PremiumDone =>
        LET t == ret[1].total_multiplier
        IN  ret[1].summary =
                (IF t > 1100 THEN "excellent"
                 ELSE IF t > 1000 THEN "good"
                 ELSE IF t > 900 THEN "average"
                 ELSE "caution")

\* the keys of the record the regional estimator returns
EstimateKeys ==
    {"base_cost_cpm", "recent_cpm_cost", "tier_base", "base_cost", "engagement_rate",
     "engagement_multiplier", "engagement_level", "comment_like_ratio",
     "quality_multiplier", "quality_level", "final_engagement_multiplier",
     "channel_premium_multiplier", "premium_details", "global_final_cost",
     "korea_adjustment", "final_cost", "min_cost", "max_cost", "cpm_used"}

\* C18: for non-negative arguments, zeros and absent options included, the
\* regional estimator raises nothing and returns the complete record; a zero
\* denominator gives the neutral value: health ratio 0 without subscribers,
\* comment-like ratio 0 without likes, loyalty 1.0 and growth 1.0 without
\* views.
C18_NoDivisionByZero ==
    KoreaDone =>
        LET r == ret[1]
        IN  /\ "raised" \notin DOMAIN r
            /\ DOMAIN r = EstimateKeys
            /\ call.subscriber_count = 0 => r.premium_details.health.ratio = FromInt(0)
            /\ call.avg_likes = 0 =>
                    (r.comment_like_ratio = 0 /\ r.quality_multiplier = 1000)
            /\ call.avg_views = 0 =>
                    /\ r.premium_details.loyalty.multiplier = 1000
                    /\ r.premium_details.growth.multiplier = 1000

\* every count 0 and every option 0 or absent, and an estimate came back
C18_Witness ==
    /\ KoreaDone
    /\ call.subscriber_count = 0
    /\ call.avg_views = 0
    /\ call.avg_likes = 0
    /\ call.avg_comments = 0
    /\ call.video_count = 0
    /\ call.recent_90day_avg_views = Some(0)
    /\ call.channel_age_days = None
    /\ "final_cost" \in DOMAIN ret[1]

UnroundedRate(video_stats) ==
    IF video_stats.viewCount = 0 THEN FromInt(0)
    ELSE FMul(FDiv(video_stats.likeCount + video_stats.commentCount,
                   video_stats.viewCount), FromInt(100))

RECURSIVE SumUnrounded(_, _)
SumUnrounded(videos, acc) ==
    IF videos = <<>> THEN acc
    ELSE SumUnrounded(Tail(videos), FAdd(acc, UnroundedRate(videos[1])))

\* C20: the engagement rate handed to the estimator is the mean over the
\* sampled videos of (likes + comments) / views * 100, a video without views
\* counting as 0, with nothing else (such as rounding each video's rate)
\* changing the mean.
C20_EngagementRateIsMean ==
    metrics # None =>
        metrics[1].avg_engagement_rate =
            FDivF(SumUnrounded(recent_videos, FromInt(0)), FromInt(Len(recent_videos)))

\* the narrative generator has been contacted in this run
GeneratorCalled == \E i \in 1..Len(requests) : requests[i] = "generate_content"
\* the run has reached the narrative step
NarrativeStep == pc \in {"analyze", "report"} \/ GeneratorCalled \/ ai_result # PyNone

\* C21: the narrative is asked for only after the final, minimum and maximum
\* cost were computed and shown, only when the button was clicked, and the
\* button is clicked only when the AI capability is available; whatever the
\* narrative step gives (a report, an error, nothing, an exception), the
\* three costs stay those of the estimate shown.
C21_NarrativeOffCriticalPath ==
    /\ NarrativeStep =>
            /\ "cost" \in screen
            /\ cost_data # None
            /\ ai_button_clicked
    /\ ai_button_clicked =>
            (config[1].gemini_available /\ config[1].gemini_api_loaded)
    /\ "cost" \in screen =>
            LET shown == page_estimate(channel_info[1].subscriberCount, metrics[1],
                                       config[1].cpm_slider)
            IN  /\ cost_data[1].final_cost = shown.final_cost
                /\ cost_data[1].min_cost = shown.min_cost
                /\ cost_data[1].max_cost = shown.max_cost

\* the generator answered with an error after the costs were shown
C21_Witness ==
    /\ GeneratorCalled
    /\ "ai error" \in screen
    /\ "cost" \in screen
    /\ pc = "done"
    /\ cost_data[1].final_cost > 0

\* C22: when the tier floor is the base cost, the regional final cost is the
\* one floor of the exact product global final cost * premium composite *
\* regional adjustment: truncating in between changes nothing.
C22_SingleFloorWhenFloorBound ==
    KoreaDone =>
        LET g == GlobalOf(call)
            r == ret[1]
        IN  g.base_cost = g.tier_base =>
                r.final_cost = FloorOfProduct(g.final_cost, r.channel_premium_multiplier,
                                              r.korea_adjustment)

\* the remote calls of a run, in the only order they can be issued
RequestOrder(first) ==
    <<first, "channels.id", "playlistItems", "videos", "generate_content">>
\* request name r has been issued
Requested(r) == \E i \in 1..Len(requests) : requests[i] = r

\* C23: the statistics calls are made one after the other, each only after
\* the one before returned something: the playlist lookup after a channel
\* was returned, the video lookup after an item list was returned, the
\* estimate after a non-empty video list was returned; when a step returns
\* nothing or fails, nothing later is requested and no price is computed.
C23_SequentialFetchOrAbort ==
    /\ \E first \in {"channels.id", "channels.forHandle"} :
            requests = SubSeq(RequestOrder(first), 1, Len(requests))
    /\ Requested("playlistItems") => channel_info # None
    /\ Requested("videos") => (Requested("playlistItems") /\ playlist # None)
    /\ (cost_data # None \/ metrics # None) =>
            (Requested("videos") /\ recent_videos # <<>>)
    /\ (recent_videos = <<>> /\ pc \in {"done", "crashed"}) =>
            /\ cost_data = None
            /\ "cost" \notin screen
            /\ ~Requested("generate_content")
            /\ fault \in {"none", "RequestException"}
    /\ fault = "RequestException" =>
            (cost_data = None /\ recent_videos = <<>> /\ screen = {})
    /\ (channel_info = None /\ pc \in {"done", "crashed"}) => Len(requests) <= 1
    /\ (playlist = None /\ pc \in {"done", "crashed"}) => ~Requested("videos")

\* the playlist lookup returned no item list: the run ended without the
\* video lookup and without a price
C23_Witness ==
    /\ pc = "done"
    /\ Requested("playlistItems")
    /\ playlist = None
    /\ ~Requested("videos")
    /\ cost_data = None
    /\ "no recent videos" \in screen

AggDone == call.fn = "sample_metrics" /\ ret # None
\* the videos of a sample in the order f
Reordered(videos, f) == SubSeq([i \in 1..Len(videos) |-> videos[f[i]]], 1, Len(videos))

AnalyzerDone == call.fn = "analyze_with_gemini" /\ ret # None
\* one opening marker (three backticks and json, or three backticks) removed
OpenedOnce(text) == IF Len(text) >= 2 /\ text[1] = Fence /\ text[2] = Json THEN SubSeq(text, 3, Len(text)) ELSE IF Len(text) >= 1 /\ text[1] = Fence THEN Tail(text) ELSE text
\* one closing marker removed
ClosedOnce(text) == IF Len(text) >= 1 /\ text[Len(text)] = Fence THEN SubSeq(text, 1, Len(text) - 1) ELSE text
\* the text without white space at its ends
Trimmed(text) == LET RECURSIVE T(_) T(t) == IF t # <<>> /\ t[1] = Space THEN T(Tail(t)) ELSE IF t # <<>> /\ t[Len(t)] = Space THEN T(SubSeq(t, 1, Len(t) - 1)) ELSE t IN T(text)

\* C25: a JSON document inside a fenced block (opening marker with or
\* without json, closing marker, white space around) is returned as the bare
\* document is, a bare document is returned unchanged, and no more than one
\* marker is removed at each end: the value returned is the document left by
\* removing at most one opening and one closing marker, else an error.
C25_FenceStrippedOnce ==
    (AnalyzerDone /\ ret[1].requests # <<>> /\ ~call.outcome.raises) =>
        LET core == Trimmed(ClosedOnce(OpenedOnce(Trimmed(call.outcome.text))))
        IN  ret[1].value = IF Len(core) = 1 /\ core[1].t = "doc" THEN core[1].doc
                           ELSE PyDict({"error"})

\* C30: without the package or without the loaded key the call returns None
\* and sends the generator nothing; otherwise it sends exactly one request,
\* whose prompt lists the first videos of the list, five at most.
C30_GeneratorContactedOnce ==
    AnalyzerDone =>
        /\ (~call.gemini_available \/ ~call.gemini_api_loaded) =>
                (ret[1].value = PyNone /\ ret[1].requests = <<>>)
        /\ (call.gemini_available /\ call.gemini_api_loaded) =>
                /\ Len(ret[1].requests) = 1
                /\ Len(ret[1].requests[1]) <= 5
                /\ Len(ret[1].requests[1]) <= Len(call.videos)
                /\ (Len(call.videos) <= 5 => ret[1].requests[1] = call.videos)
                /\ \A i \in 1..Len(ret[1].requests[1]) :
                        ret[1].requests[1][i] = call.videos[i]
\* seven recent videos, five of them in the one request
C30_Witness ==
    /\ AnalyzerDone
    /\ Len(call.videos) = 7
    /\ Len(ret[1].requests) = 1
    /\ ret[1].requests[1] = <<1, 2, 3, 4, 5>>
    /\ ret[1].value.type = "dict"

OverviewShown == "overview" \in screen /\ cost_data # None

\* C26: the estimate carries the health breakdown (ratio, level, multiplier)
\* of the same subscriber count and average views in the field the page
\* reads, and the page that shows the overview shows the channel-health
\* panel.
C26_HealthPanelRendered ==
    OverviewShown =>
        /\ "channel_health" \in DOMAIN cost_data[1]
        /\ {"ratio", "level", "multiplier"} \subseteq DOMAIN channel_health(cost_data[1])
        /\ "channel health" \in screen

\* C27: the engagement-quality label the page shows is the quality level of
\* the estimate it shows.
C27_QualityLabelAgrees ==
    OverviewShown => cost_data[1].quality_level \in screen

\* C28: a regional estimate of non-negative arguments has
\* 0 < min_cost <= final_cost <= max_cost, and the base cost it starts from
\* is at least the tier floor, itself at least 350,000.
C28_PositiveOrderedRange ==
    KoreaDone =>
        /\ ret[1] # ZeroDivisionError
        /\ 0 < ret[1].min_cost
        /\ ret[1].min_cost <= ret[1].final_cost
        /\ ret[1].final_cost <= ret[1].max_cost
        /\ ret[1].global_final_cost > 0
        /\ LET g == GlobalOf(call)
           IN  /\ g.tier_base >= 350000
               /\ g.base_cost >= g.tier_base
               /\ g.final_cost > 0
\* a call with no views, no subscribers and a CPM of 0, priced above 0
C28_Witness ==
    /\ KoreaDone
    /\ call.cpm_krw = 0
    /\ call.avg_views = 0
    /\ call.subscriber_count = 0
    /\ ret[1].base_cost_cpm = 0
    /\ ret[1].min_cost > 0
    /\ ret[1].min_cost < ret[1].final_cost
    /\ ret[1].final_cost < ret[1].max_cost

\* C29: in every estimate the page makes, whatever the channel's video
\* count, growth is 1.0 (no 90-day figure), consistency is 0.95 (the default
\* of 10 videos, no channel age), and the composite is the product
\* health * 0.95 * loyalty rounded to 3 decimals, health and loyalty being
\* those of the subscriber count and the sample averages.
C29_OnlyHealthAndLoyalty ==
    cost_data # None =>
        LET p == cost_data[1].premium_details
            h == p.health.multiplier
            l == p.loyalty.multiplier
            diff == p.total_multiplier * 10^5 - (h \div 10) * 100 * 95 * (l \div 10)
        IN  /\ p.growth.multiplier = 1000
            /\ p.consistency.multiplier = 950
            /\ diff <= 5 * 10^4 /\ 0 - diff <= 5 * 10^4
            /\ cost_data[1].channel_premium_multiplier = p.total_multiplier
            /\ p.health = calculate_channel_health(channel_info[1].subscriberCount,
                                                   metrics[1].avg_views)
            /\ p.loyalty = calculate_loyalty_multiplier(metrics[1].avg_views,
                    metrics[1].avg_comments, channel_info[1].subscriberCount)
\* a channel with 300 videos priced twice with consistency 0.95
C29_Witness ==
    /\ cost_data # None
    /\ "cost" \in screen
    /\ channel_info[1].videoCount = 300
    /\ cost_data[1].premium_details.consistency.multiplier = 950
    /\ cost_data[1].premium_details.growth.multiplier = 1000
    /\ cost_data[1].premium_details.health.multiplier # 1000
    /\ cost_data[1].premium_details.loyalty.multiplier # 1000

====
